---- MODULE Spec2Model ----
(* A model of djangobench.py: main's benchmark loop, the discover_benchmarks  *)
(* generator and run_benchmark's priming and measured child invocations.      *)
EXTENDS Integers, Sequences, FiniteSets, TLC

\* ---------------------------------------------------------------- bounds
\* Directory entries of the benchmark directory are named 1..MaxApps; the
\* order of the names is the order of the numbers.
MaxApps == 2
\* The trial count given on the command line ranges over 1..MaxTrials.
MaxTrials == 2

AppNames == 1..MaxApps
Sides == {"control", "experiment"}
NoValue == "None"
NL == "\n"

\* ------------------------------------------------------- inputs of main
\* An entry of the benchmark directory: a plain file, or a directory holding
\* some of the two files discover_benchmarks looks for.
Entries ==
    {[isdir |-> FALSE, files |-> {}]}
    \cup {[isdir |-> TRUE, files |-> f] : f \in SUBSET {"benchmark.py", "settings.py"}}

\* What a benchmark script may write on standard output, character by
\* character: nothing, one sample, two samples, a line that is no number, an
\* empty line.
Outputs ==
    { <<>>,
      <<"1", ".", "5", NL>>,
      <<"2", NL, " ", "1", ".", "5", "0", NL>>,
      <<"1", NL, "x", NL>>,
      <<NL>> }

\* The scripts of a run that looks at many directories write one of these.
PlainOutputs ==
    { <<"1", ".", "5", NL>>,
      <<"1", NL, "x", NL>> }

control == <<"django-control", "django">>
experiment == <<"django-experiment", "django">>
BENCMARK_DIR == <<"benchmarks">>
ToolDir == <<>>

VARIABLES
    fs,              \* the benchmark directory: name -> entry
    benchmarks,      \* main's argument: the requested benchmark names
    trials,          \* main's argument: the trial count
    stdouts,         \* what the benchmark scripts on disk can print
    pc,              \* where main (and the run_benchmark it calls) stands
    error,           \* the exception that ended main, or NoValue
    heap,            \* the dict objects, by identity
    control_env,     \* main's local: a reference into heap
    experiment_env,  \* main's local: a reference into heap
    gen,             \* the generator: "new", "running" or "finished"
    listing,         \* the list listdir returned to the generator
    pos,             \* how many entries of listing the generator has passed
    benchmark,       \* main's loop variable
    side,            \* which run_benchmark call of the iteration is active
    i,               \* run_benchmark's loop counter
    data_points,     \* run_benchmark's local list
    stderr,          \* run_benchmark's local: stderr of the last trial
    control_data,    \* main's local
    experiment_data, \* main's local
    log,             \* history: every child invocation made by run_benchmark
    outs,            \* history: stdout of the measured invocations of the call
    yielded,         \* history: what discover_benchmarks has yielded
    produced,        \* history: every RawData returned
    printed          \* history: the benchmarks whose comparison was printed

vars == <<fs, benchmarks, trials, stdouts, pc, error, heap, control_env, experiment_env,
          gen, listing, pos, benchmark, side, i, data_points, stderr, control_data,
          experiment_data, log, outs, yielded, produced, printed>>

\* ------------------------------------------------------------ helpers
RECURSIVE SplitAcc(_, _, _)
SplitAcc(s, cur, acc) ==
    IF s = <<>>
    THEN IF cur = <<>> THEN acc ELSE Append(acc, cur)
    ELSE IF Head(s) = NL
         THEN SplitAcc(Tail(s), <<>>, Append(acc, cur))
         ELSE SplitAcc(Tail(s), Append(cur, Head(s)), acc)

\* str.splitlines(): the lines without their line ends; a final line end
\* starts no further line.
SplitLines(s) == SplitAcc(s, <<>>, <<>>)

Digits == {"0", "1", "2", "3", "4", "5", "6", "7", "8", "9"}

DigitVal(c) ==
    CASE c = "0" -> 0 [] c = "1" -> 1 [] c = "2" -> 2 [] c = "3" -> 3
      [] c = "4" -> 4 [] c = "5" -> 5 [] c = "6" -> 6 [] c = "7" -> 7
      [] c = "8" -> 8 [] c = "9" -> 9

RECURSIVE LStrip(_)
LStrip(s) == IF s # <<>> /\ Head(s) = " " THEN LStrip(Tail(s)) ELSE s

RECURSIVE RStrip(_)
RStrip(s) ==
    IF s # <<>> /\ s[Len(s)] = " " THEN RStrip(SubSeq(s, 1, Len(s) - 1)) ELSE s

RECURSIVE IntVal(_)
IntVal(ds) ==
    IF ds = <<>> THEN 0
    ELSE 10 * IntVal(SubSeq(ds, 1, Len(ds) - 1)) + DigitVal(ds[Len(ds)])

RECURSIVE DropZeros(_)
DropZeros(ds) ==
    IF ds # <<>> /\ ds[Len(ds)] = "0" THEN DropZeros(SubSeq(ds, 1, Len(ds) - 1)) ELSE ds

\* What float() raises on a line that is no number.
ParseError == [ok |-> FALSE, neg |-> FALSE, int |-> 0, frac |-> <<>>]

\* A float() that takes a line that is no number for zero.
FloatLenient(line) ==
    IF \E k \in DOMAIN line : line[k] \in Digits
    THEN [ok |-> TRUE, neg |-> FALSE,
          int |-> IntVal(SelectSeq(line, LAMBDA c : c \in Digits)), frac |-> <<>>]
    ELSE [ok |-> TRUE, neg |-> FALSE, int |-> 0, frac |-> <<>>]

\* float(line) on a line of digits, ".", sign and blanks: the number as its
\* sign, integer part and fraction digits (trailing zeros dropped), or
\* ParseError (a ValueError). Exponents, "nan" and "inf" are outside the alphabet.
Float(line) ==
    LET s == RStrip(LStrip(line))
        signed == s # <<>> /\ Head(s) \in {"+", "-"}
        body == IF signed THEN Tail(s) ELSE s
        dots == {k \in DOMAIN body : body[k] = "."}
        dot == IF dots = {} THEN Len(body) + 1 ELSE CHOOSE k \in dots : TRUE
        ip == SubSeq(body, 1, dot - 1)
        fp == DropZeros(SubSeq(body, dot + 1, Len(body)))
        wellformed ==
            /\ \A k \in DOMAIN body : body[k] \in Digits \cup {"."}
            /\ Cardinality(dots) <= 1
            /\ \E k \in DOMAIN body : body[k] \in Digits
        zero == IntVal(ip) = 0 /\ fp = <<>>
    IN IF wellformed
       THEN [ok |-> TRUE, neg |-> signed /\ Head(s) = "-" /\ ~zero, int |-> IntVal(ip), frac |-> fp]
       ELSE ParseError

\* perf.CallAndCaptureOutput either returns (stdout, stderr, mem_usage) or
\* raises because the child died.
ChildResults ==
    {[died |-> FALSE, stdout |-> o, stderr |-> ""] : o \in stdouts}
    \cup {[died |-> TRUE, stdout |-> <<>>, stderr |-> "Traceback"]}

\* dict[key] = value
DictSet(d, key, value) ==
    [k \in DOMAIN d \cup {key} |-> IF k = key THEN value ELSE d[k]]

Parent(path) == SubSeq(path, 1, Len(path) - 1)

\* ":".join([benchmark_dir, parent of the tree, the tool's directory])
PythonPath(tree) == <<BENCMARK_DIR, Parent(tree), ToolDir>>

\* '%s.settings' % benchmark.name
SettingsMod(name) == <<name, ".settings">>

\* [sys.executable, '%s/benchmark.py' % benchmark]
Command(app) == <<"sys.executable", <<BENCMARK_DIR, app, "/benchmark.py">>>>

RawData(points, mem, inst) ==
    [data_points |-> points, mem_usage |-> mem, inst_output |-> inst]

RECURSIVE Orderings(_)
Orderings(S) ==
    IF S = {} THEN {<<>>}
    ELSE UNION {{<<x>> \o p : p \in Orderings(S \ {x})} : x \in S}

\* Path.listdir(filter=DIRS): the directories among the entries, in the
\* order the listing gives them.
ListDir == Orderings({a \in AppNames : fs[a].isdir})

\* A test that looks for the entry point only.
IsBenchmarkEntryPointOnly(app) == "benchmark.py" \in fs[app].files

\* app.child('benchmark.py').exists() and app.child('settings.py').exists()
IsBenchmark(app) ==
    "benchmark.py" \in fs[app].files /\ "settings.py" \in fs[app].files

\* A filter without its "not benchmarks" case.
SelectedWhenNamed(name) == name \in benchmarks

\* not benchmarks or benchmark.name in benchmarks
Selected(name) == benchmarks = {} \/ name \in benchmarks

\* Both calls given control_env.
EnvArgControlOnly(s) == control_env

\* The environment main passes to each of the two run_benchmark calls.
EnvArg(s) == IF s = "control" THEN control_env ELSE experiment_env

\* A loop that runs once more, and one that runs once less.
MoreTrialsOneMore(n, k) == n <= k
MoreTrialsOneLess(n, k) == n < k - 1

\* for i in range(trials)
MoreTrials(n, k) == n < k

\* New samples put in front of the old ones.
ExtendFront(points, values) == values \o points

\* data_points.extend(...)
Extend(points, values) == points \o values

\* dict.setdefault in place of the assignment.
SetSettingsDefault(d, mod) ==
    IF "DJANGO_SETTINGS_MODULE" \in DOMAIN d THEN d
    ELSE DictSet(d, "DJANGO_SETTINGS_MODULE", mod)

\* control_env['DJANGO_SETTINGS_MODULE'] = settings_mod
SetSettings(d, mod) == DictSet(d, "DJANGO_SETTINGS_MODULE", mod)

\* The experiment measured first.
SideOrderSwapped == <<"experiment", "control">>

\* The order of the two run_benchmark calls of an iteration.
SideOrder == <<"control", "experiment">>

\* main ends, by its return or by an exception nobody catches: its frame and
\* run_benchmark's are released, and with them the measurement data they hold.
Released ==
    /\ data_points' = <<>>
    /\ stderr' = NoValue
    /\ control_data' = NoValue
    /\ experiment_data' = NoValue

\* ---------------------------------------------------------------- Init
\* The runs looked at: any directory content and any request with scripts
\* that print one sample or a bad line, and a directory with one benchmark
\* whose script prints any of Outputs.
Init ==
    /\ \/ /\ fs \in [AppNames -> Entries]
          /\ benchmarks \in SUBSET AppNames
          /\ stdouts = PlainOutputs
       \/ /\ fs \in {f \in [AppNames -> Entries] :
                       \E a \in AppNames :
                          /\ f[a] = [isdir |-> TRUE, files |-> {"benchmark.py", "settings.py"}]
                          /\ \A b \in AppNames \ {a} : ~f[b].isdir}
          /\ benchmarks \in {{}, AppNames}
          /\ stdouts = Outputs
    /\ trials \in 1..MaxTrials
    /\ pc = "main"
    /\ error = NoValue
    /\ heap = <<>>
    /\ control_env = 0
    /\ experiment_env = 0
    /\ gen = "new"
    /\ listing = <<>>
    /\ pos = 0
    /\ benchmark = 0
    /\ side = NoValue
    /\ i = 0
    /\ data_points = <<>>
    /\ stderr = NoValue
    /\ control_data = NoValue
    /\ experiment_data = NoValue
    /\ log = <<>>
    /\ outs = <<>>
    /\ yielded = <<>>
    /\ produced = <<>>
    /\ printed = <<>>

\* ------------------------------------------------------------- actions
\* main, up to the loop: the two environments are built, each a new dict.
MainSetup ==
    /\ pc = "main"
    /\ heap' = << [PYTHONPATH |-> PythonPath(control)],
                  [PYTHONPATH |-> PythonPath(experiment)] >>
    /\ control_env' = 1
    /\ experiment_env' = 2
    /\ pc' = "loop"
    /\ UNCHANGED <<fs, benchmarks, trials, stdouts, error, gen, listing, pos, benchmark, side,
                   i, data_points, stderr, control_data, experiment_data, log,
                   outs, yielded, produced, printed>>

\* The for statement asks the generator for its next value: the generator
\* lists the directory when first asked, then passes entries until one holds
\* both files, or the list ends.
LoopNext ==
    /\ pc = "loop"
    /\ \E l \in (IF gen = "new" THEN ListDir ELSE {listing}) :
         LET hits == {k \in (pos + 1)..Len(l) : IsBenchmark(l[k])}
             nxt == IF hits = {} THEN 0 ELSE CHOOSE k \in hits : \A h \in hits : k <= h
         IN /\ listing' = l
            /\ IF hits = {}
               THEN /\ pos' = Len(l)
                    /\ gen' = "finished"
                    /\ pc' = "done"
                    /\ Released
                    /\ UNCHANGED <<benchmark, yielded>>
               ELSE /\ pos' = nxt
                    /\ gen' = "running"
                    /\ benchmark' = l[nxt]
                    /\ yielded' = Append(yielded, l[nxt])
                    /\ pc' = "body"
                    /\ UNCHANGED <<data_points, stderr, control_data, experiment_data>>
    /\ UNCHANGED <<fs, benchmarks, trials, stdouts, error, heap, control_env,
                   experiment_env, side, i, log, outs, produced, printed>>

\* The loop body's test, and for a selected benchmark the two assignments of
\* DJANGO_SETTINGS_MODULE.
LoopBody ==
    /\ pc = "body"
    /\ IF Selected(benchmark)
       THEN /\ heap' = [heap EXCEPT
                  ![control_env] = SetSettings(heap[control_env], SettingsMod(benchmark)),
                  ![experiment_env] = SetSettings(heap[experiment_env], SettingsMod(benchmark))]
            /\ side' = SideOrder[1]
            /\ pc' = "prime"
       ELSE /\ pc' = "loop"
            /\ UNCHANGED <<heap, side>>
    /\ UNCHANGED <<fs, benchmarks, trials, stdouts, error, control_env, experiment_env,
                   gen, listing, pos, benchmark, i, data_points, stderr, control_data,
                   experiment_data, log, outs, yielded, produced, printed>>

Invocation(kind) ==
    [bench |-> benchmark, side |-> side, kind |-> kind,
     command |-> Command(benchmark), env_id |-> EnvArg(side),
     env |-> heap[EnvArg(side)]]

\* run_benchmark up to its loop: the priming call, its output dropped.
RunPrime ==
    /\ pc = "prime"
    /\ \E r \in ChildResults :
         /\ log' = Append(log, Invocation("prime"))
         /\ outs' = <<>>
         /\ IF r.died
            THEN /\ pc' = "crashed"
                 /\ error' = "RuntimeError"
                 /\ Released
                 /\ UNCHANGED i
            ELSE /\ pc' = "trials"
                 /\ i' = 0
                 /\ data_points' = <<>>
                 /\ UNCHANGED <<error, stderr, control_data, experiment_data>>
    /\ UNCHANGED <<fs, benchmarks, trials, stdouts, heap, control_env, experiment_env,
                   gen, listing, pos, benchmark, side, yielded, produced, printed>>

\* One pass of run_benchmark's loop: a measured call, every line of its
\* standard output converted and appended.
RunTrial ==
    /\ pc = "trials"
    /\ MoreTrials(i, trials)
    /\ \E r \in ChildResults :
         /\ log' = Append(log, Invocation("trial"))
         /\ IF r.died
            THEN /\ pc' = "crashed"
                 /\ error' = "RuntimeError"
                 /\ Released
                 /\ UNCHANGED <<i, outs>>
            ELSE LET lines == SplitLines(r.stdout)
                     bad == {k \in DOMAIN lines : Float(lines[k]) = ParseError}
                     upto == IF bad = {} THEN Len(lines)
                             ELSE (CHOOSE k \in bad : \A b \in bad : k <= b) - 1
                     values == [k \in 1..upto |-> Float(lines[k])]
                 IN /\ outs' = Append(outs, r.stdout)
                    /\ IF bad = {}
                       THEN /\ stderr' = r.stderr
                            /\ data_points' = Extend(data_points, values)
                            /\ i' = i + 1
                            /\ UNCHANGED <<pc, error, control_data, experiment_data>>
                       ELSE /\ pc' = "crashed"
                            /\ error' = "ValueError"
                            /\ Released
                            /\ UNCHANGED i
    /\ UNCHANGED <<fs, benchmarks, trials, stdouts, heap, control_env, experiment_env,
                   gen, listing, pos, benchmark, side, yielded, produced, printed>>

\* run_benchmark returns its RawData to main, which binds it and goes on to
\* the second call or to the comparison.
RunReturn ==
    /\ pc = "trials"
    /\ ~MoreTrials(i, trials)
    /\ LET raw == RawData(data_points, NoValue, stderr)
       IN /\ produced' = Append(produced, [bench |-> benchmark, side |-> side,
                                           measured |-> i])
          /\ IF side = SideOrder[1]
             THEN /\ (IF side = "control"
                      THEN control_data' = raw /\ UNCHANGED experiment_data
                      ELSE experiment_data' = raw /\ UNCHANGED control_data)
                  /\ side' = SideOrder[2]
                  /\ pc' = "prime"
             ELSE /\ (IF side = "control"
                      THEN control_data' = raw /\ UNCHANGED experiment_data
                      ELSE experiment_data' = raw /\ UNCHANGED control_data)
                  /\ UNCHANGED side
                  /\ pc' = "compare"
    /\ UNCHANGED <<fs, benchmarks, trials, stdouts, error, heap, control_env,
                   experiment_env, gen, listing, pos, benchmark, i, data_points,
                   stderr, log, outs, yielded, printed>>

\* perf.CompareBenchmarkData and the print of its result; the comparison may
\* raise.
Compare ==
    /\ pc = "compare"
    /\ \E raised \in BOOLEAN :
         IF raised
         THEN /\ pc' = "crashed"
              /\ error' = "Exception"
              /\ Released
              /\ UNCHANGED printed
         ELSE /\ printed' = Append(printed, benchmark)
              /\ pc' = "loop"
              /\ UNCHANGED <<error, data_points, stderr, control_data, experiment_data>>
    /\ UNCHANGED <<fs, benchmarks, trials, stdouts, heap, control_env, experiment_env,
                   gen, listing, pos, benchmark, side, i, log, outs, yielded, produced>>

Next ==
    \/ MainSetup
    \/ LoopNext
    \/ LoopBody
    \/ RunPrime
    \/ RunTrial
    \/ RunReturn
    \/ Compare

Spec == Init /\ [][Next]_vars

\* ------------------------------------------------------------- claims
\* What the formulas below read off the state, written without the
\* operators of the model.
Discovered == {a \in AppNames : fs[a].isdir /\ fs[a].files = {"benchmark.py", "settings.py"}}
Requested == {a \in Discovered : benchmarks = {} \/ a \in benchmarks}
CallsOf(b, s) == SelectSeq(log, LAMBDA e : e.bench = b /\ e.side = s)
Returned(b, s) == {k \in DOMAIN produced : produced[k].bench = b /\ produced[k].side = s}
SeqRange(q) == {q[k] : k \in DOMAIN q}
ExpectedPath(s) ==
    IF s = "control" THEN <<<<"benchmarks">>, <<"django-control">>, <<>>>>
    ELSE <<<<"benchmarks">>, <<"django-experiment">>, <<>>>>

\* C1: a run_benchmark call never makes more than trials + 1 child
\* invocations, a call that has returned made exactly trials + 1, the first of
\* them the priming one and the others measured, and all of them were given
\* the same command and the same environment.
C1_InvocationCount ==
    \A b \in AppNames : \A s \in Sides :
        LET es == CallsOf(b, s)
        IN /\ Len(es) <= trials + 1
           /\ Returned(b, s) # {} => Len(es) = trials + 1
           /\ \A k \in DOMAIN es :
                /\ (es[k].kind = "prime") <=> (k = 1)
                /\ es[k].command = es[1].command
                /\ es[k].env = es[1].env

C1_Witness ==
    /\ trials = 2
    /\ \E b \in AppNames :
         /\ Returned(b, "control") # {}
         /\ Returned(b, "experiment") # {}
         /\ Len(CallsOf(b, "experiment")) = 3

\* C2: the invocations of one benchmark are not interleaved with those of
\* another, an invocation of a later benchmark finds the comparison of every
\* earlier one printed, and an experiment-side invocation finds the control
\* call of its benchmark returned after all its trials + 1 invocations.
C2_Sequential ==
    \A j \in DOMAIN log : \A k \in DOMAIN log :
        j < k =>
          /\ log[j].bench # log[k].bench =>
                /\ log[j].bench \in SeqRange(printed)
                /\ \A m \in k..Len(log) : log[m].bench # log[j].bench
          /\ (log[j].bench = log[k].bench /\ log[j].side # log[k].side) =>
                /\ log[j].side = "control"
                /\ log[k].side = "experiment"
                /\ Len(CallsOf(log[j].bench, "control")) = trials + 1
                /\ Returned(log[j].bench, "control") # {}

C2_Witness ==
    /\ Len(printed) = 1
    /\ \E k \in DOMAIN log : log[k].side = "experiment" /\ log[k].bench # printed[1]

\* C4: every child invocation of run_benchmark for benchmark b is given
\* DJANGO_SETTINGS_MODULE = '<b>.settings' and the PYTHONPATH of its side.
C4_SettingsModule ==
    \A k \in DOMAIN log :
        /\ DOMAIN log[k].env = {"PYTHONPATH", "DJANGO_SETTINGS_MODULE"}
        /\ log[k].env["DJANGO_SETTINGS_MODULE"] = <<log[k].bench, ".settings">>
        /\ log[k].env["PYTHONPATH"] = ExpectedPath(log[k].side)

C4_Witness ==
    \E j \in DOMAIN log : \E k \in DOMAIN log :
        /\ j < k
        /\ log[j].bench # log[k].bench
        /\ log[k].kind = "trial"
        /\ log[k].side = "experiment"

\* C5: no (benchmark, side) pair gets more than one RawData, every RawData
\* rests on exactly trials measured invocations, a printed comparison had one
\* RawData of each side, and a run that ends normally has produced one RawData
\* for each side of each selected benchmark and for nothing else.
C5_OneRawDataPerSide ==
    /\ \A b \in AppNames : \A s \in Sides : Cardinality(Returned(b, s)) <= 1
    /\ \A k \in DOMAIN produced :
         /\ produced[k].measured = trials
         /\ produced[k].bench \in Requested
    /\ \A k \in DOMAIN printed : \A s \in Sides :
         Cardinality(Returned(printed[k], s)) = 1
    /\ pc = "done" =>
         \A b \in Requested : \A s \in Sides : Cardinality(Returned(b, s)) = 1

C5_Witness ==
    /\ pc = "done"
    /\ trials = 2
    /\ Len(produced) = 4

\* C7: child invocations and printed comparisons belong to discovered
\* benchmarks, and with a non-empty request to requested ones only; a run that
\* ends normally has printed one comparison for each discovered benchmark that
\* is requested, which is every discovered benchmark when the request is empty.
C7_Filter ==
    /\ \A k \in DOMAIN log :
         /\ log[k].bench \in Discovered
         /\ benchmarks # {} => log[k].bench \in benchmarks
    /\ \A k \in DOMAIN printed :
         /\ printed[k] \in Discovered
         /\ benchmarks # {} => printed[k] \in benchmarks
    /\ pc = "done" =>
         /\ SeqRange(printed) = Requested
         /\ benchmarks = {} => SeqRange(printed) = Discovered

C7_Witness ==
    /\ pc = "done"
    /\ benchmarks = {1}
    /\ Discovered = {1, 2}
    /\ printed = <<1>>

\* C3 as stated: an environment is made anew for each (benchmark, side), so
\* no two calls of run_benchmark are given the same dict object, and a dict
\* that was given to a child invocation is never changed afterwards.
C3_FreshPerBenchmark ==
    /\ \A j \in DOMAIN log : \A k \in DOMAIN log :
         (log[j].bench # log[k].bench \/ log[j].side # log[k].side)
            => log[j].env_id # log[k].env_id
    /\ \A k \in DOMAIN log : heap[log[k].env_id] = log[k].env

\* C3 as amended: main builds one dict per side before the loop and gives
\* that same object to every run_benchmark call of the side; the dict is
\* changed only by main's assignment of DJANGO_SETTINGS_MODULE at the start of
\* a selected benchmark, so it keeps the content it was called with for as
\* long as that benchmark is being measured and compared.
C3_OneEnvPerSide ==
    /\ pc # "main" => (Len(heap) = 2 /\ control_env = 1 /\ experiment_env = 2)
    /\ \A k \in DOMAIN log :
         /\ log[k].env_id = (IF log[k].side = "control" THEN control_env ELSE experiment_env)
         /\ (log[k].bench = benchmark /\ pc \in {"prime", "trials", "compare"})
               => heap[log[k].env_id] = log[k].env
         /\ \A j \in DOMAIN log :
              (log[j].bench = log[k].bench /\ log[j].side = log[k].side)
                 => log[j].env = log[k].env

C3_Witness ==
    \E j \in DOMAIN log : \E k \in DOMAIN log :
        /\ log[j].bench # log[k].bench
        /\ log[j].side = "experiment"
        /\ log[k].side = "experiment"
        /\ log[j].env_id = log[k].env_id
        /\ log[j].env # log[k].env

RECURSIVE Samples(_)
Samples(os) ==
    IF os = <<>> THEN <<>>
    ELSE LET lines == SplitLines(Head(os))
         IN [k \in DOMAIN lines |-> Float(lines[k])] \o Samples(Tail(os))

\* C8: the data points of a call, while it runs and in the RawData it
\* returns, are the numbers on the lines of the measured invocations' standard
\* output, in the order of the invocations and of the lines; the priming
\* invocation gives none.
C8_TrialSequence ==
    /\ pc = "trials" => data_points = Samples(outs)
    /\ (pc = "prime" /\ side = "experiment") => control_data.data_points = Samples(outs)
    /\ pc = "compare" => experiment_data.data_points = Samples(outs)

C8_Witness ==
    /\ pc = "compare"
    /\ outs = << <<"2", NL, " ", "1", ".", "5", "0", NL>>, <<"1", ".", "5", NL>> >>
    /\ Len(experiment_data.data_points) = 3
    /\ experiment_data.data_points[1] # experiment_data.data_points[2]
    /\ experiment_data.data_points[2] = experiment_data.data_points[3]

\* A line that is no number: no digit in it, or a character that is neither
\* a digit, a point, a sign nor a blank.
NonNumeric(line) ==
    \/ \A k \in DOMAIN line : line[k] \notin Digits
    \/ \E k \in DOMAIN line : line[k] \notin Digits \cup {".", "+", "-", " "}

BadLineSeen ==
    \E k \in DOMAIN outs :
        \E n \in DOMAIN SplitLines(outs[k]) : NonNumeric(SplitLines(outs[k])[n])

\* C9: once a measured invocation has printed a line that is no number, main
\* has ended with a ValueError, the call that read the line has returned no
\* RawData and no comparison of its benchmark was printed.
C9_ParseErrorAborts ==
    BadLineSeen =>
        /\ pc = "crashed"
        /\ error = "ValueError"
        /\ Returned(benchmark, side) = {}
        /\ benchmark \notin SeqRange(printed)

C9_Witness ==
    /\ BadLineSeen
    /\ pc = "crashed"
    /\ side = "experiment"
    /\ Len(outs) = 2
    /\ Returned(benchmark, "control") # {}

\* C10 as stated: run_benchmark returns no RawData whose trial sequence is
\* empty.
C10_NoOutputIsError ==
    /\ (pc = "prime" /\ side = "experiment") => control_data.data_points # <<>>
    /\ pc = "compare" => experiment_data.data_points # <<>>

====
